---- MODULE Spec2Model ----
(***************************************************************************)
(* The three codemod scripts of scripts/: astpool_to_lpbox.py (Pass 1),    *)
(* fix_gen_signatures.py (Pass 2) and fix_imports.py (Pass 3).             *)
(*                                                                         *)
(* A file's text is a TLA+ string; TLC treats a string as the sequence of  *)
(* its characters (Len, \o, SubSeq), so the rules work character by        *)
(* character as Python's re module does.                                   *)
(***************************************************************************)
EXTENDS Integers, Sequences, FiniteSets, TLC

(***************************************************************************)
(* Python's re: the patterns the scripts use, as syntax trees, and a       *)
(* backtracking matcher that lists the matches in re's order of preference.*)
(***************************************************************************)
Letters ==
    {"a","b","c","d","e","f","g","h","i","j","k","l","m","n","o","p","q","r","s","t","u","v","w","x","y","z",
     "A","B","C","D","E","F","G","H","I","J","K","L","M","N","O","P","Q","R","S","T","U","V","W","X","Y","Z"}

Digits ==
    {"0","1","2","3","4","5","6","7","8","9"}

CharAt(s, p) ==
    SubSeq(s, p, p)

\* \w, \s, . , [^,] , [^)] , [^}]
InCls(cls, c) ==
    CASE cls = "w" -> c \in Letters \cup Digits \cup {"_"}
      [] cls = "s" -> c \in {" ", "\n", "\t", "\r", "\f"}
      [] cls = "dot" -> c /= "\n"
      [] cls = "notcomma" -> c /= ","
      [] cls = "notrparen" -> c /= ")"
      [] cls = "notrbrace" -> c /= "}"

Node ==
    [t |-> "", str |-> "", cls |-> "", lo |-> 0, k |-> 0, subs |-> <<>>]

\* a literal string
Lit(str) ==
    [Node EXCEPT !.t = "lit", !.str = str]

\* cls* (lo = 0) or cls+ (lo = 1), greedy
Rep(cls, lo) ==
    [Node EXCEPT !.t = "rep", !.cls = cls, !.lo = lo]

\* r?
Opt(r) ==
    [Node EXCEPT !.t = "opt", !.subs = <<r>>]

\* (r), the k-th capturing group
Grp(k, r) ==
    [Node EXCEPT !.t = "grp", !.k = k, !.subs = <<r>>]

\* r1 r2 ... rn
Cat(rs) ==
    [Node EXCEPT !.t = "cat", !.subs = rs]

\* r1|r2|...|rn
Alt(rs) ==
    [Node EXCEPT !.t = "alt", !.subs = rs]

\* \b
WordB ==
    [Node EXCEPT !.t = "wb"]

\* $ under re.MULTILINE
EOL ==
    [Node EXCEPT !.t = "eol"]

\* (?=r)
Look(r) ==
    [Node EXCEPT !.t = "look", !.subs = <<r>>]

IsWordAt(s, p) ==
    p >= 1 /\ p <= Len(s) /\ InCls("w", CharAt(s, p))

Min(S) ==
    CHOOSE x \in S : \A y \in S : x <= y

\* how many characters of class cls follow from position p
RunLen(cls, s, p) ==
    Min({q \in p..(Len(s) + 1) : q = Len(s) + 1 \/ ~InCls(cls, CharAt(s, q))}) - p

\* a match in progress: p the next position to read, g the groups' spans
Start(p) ==
    [p |-> p, g |-> <<<<1, 0>>, <<1, 0>>>>]

RECURSIVE Match(_, _, _)
RECURSIVE MatchCat(_, _, _, _)
RECURSIVE MatchEach(_, _, _, _, _)
RECURSIVE MatchAlt(_, _, _, _)

\* every way r matches s from state st, most preferred first
Match(r, s, st) ==
    CASE r.t = "lit" ->
           IF st.p + Len(r.str) - 1 <= Len(s) /\ SubSeq(s, st.p, st.p + Len(r.str) - 1) = r.str
           THEN <<[st EXCEPT !.p = st.p + Len(r.str)]>>
           ELSE <<>>
      [] r.t = "rep" ->
           LET n == RunLen(r.cls, s, st.p)
           IN  [j \in 1..(n - r.lo + 1) |-> [st EXCEPT !.p = st.p + n - j + 1]]
      [] r.t = "opt" ->
           Match(r.subs[1], s, st) \o <<st>>
      [] r.t = "grp" ->
           LET ms == Match(r.subs[1], s, st)
           IN  [j \in 1..Len(ms) |-> [ms[j] EXCEPT !.g[r.k] = <<st.p, ms[j].p - 1>>]]
      [] r.t = "cat" ->
           MatchCat(r.subs, 1, s, <<st>>)
      [] r.t = "alt" ->
           MatchAlt(r.subs, 1, s, st)
      [] r.t = "wb" ->
           IF IsWordAt(s, st.p - 1) /= IsWordAt(s, st.p) THEN <<st>> ELSE <<>>
      [] r.t = "eol" ->
           IF st.p = Len(s) + 1 \/ (st.p <= Len(s) /\ CharAt(s, st.p) = "\n") THEN <<st>> ELSE <<>>
      [] r.t = "look" ->
           IF Len(Match(r.subs[1], s, st)) > 0 THEN <<st>> ELSE <<>>

MatchCat(rs, i, s, sts) ==
    IF i > Len(rs) \/ Len(sts) = 0 THEN sts
    ELSE MatchCat(rs, i + 1, s, MatchEach(rs[i], s, sts, 1, Len(sts)))

\* the matches of r from each of sts[lo..hi], in order
MatchEach(r, s, sts, lo, hi) ==
    IF lo = hi THEN Match(r, s, sts[lo])
    ELSE LET mid == (lo + hi) \div 2
         IN  MatchEach(r, s, sts, lo, mid) \o MatchEach(r, s, sts, mid + 1, hi)

MatchAlt(rs, i, s, st) ==
    IF i > Len(rs) THEN <<>>
    ELSE Match(rs[i], s, st) \o MatchAlt(rs, i + 1, s, st)

\* replacement templates: literal text and \k group references
T(str) ==
    [g |-> 0, str |-> str]

G(k) ==
    [g |-> k, str |-> ""]

RECURSIVE Expand(_, _, _, _)
Expand(tmpl, i, s, m) ==
    IF i > Len(tmpl) THEN ""
    ELSE (IF tmpl[i].g = 0 THEN tmpl[i].str
          ELSE SubSeq(s, m.g[tmpl[i].g][1], m.g[tmpl[i].g][2]))
         \o Expand(tmpl, i + 1, s, m)

\* the positions of s where r matches (a match of the scripts' patterns is never empty)
Hits(r, s) ==
    {j \in 1..Len(s) : Len(Match(r, s, Start(j))) > 0}

RECURSIVE SubFrom(_, _, _, _, _, _)
\* the scan of re.sub from position i on; left < 0: no limit on the replacements
SubFrom(r, tmpl, s, i, left, hits) ==
    LET ahead == {j \in hits : j >= i}
    IN  IF ahead = {} \/ left = 0 THEN SubSeq(s, i, Len(s))
        ELSE LET j == Min(ahead)
                 m == Match(r, s, Start(j))[1]
             IN  SubSeq(s, i, j - 1) \o Expand(tmpl, 1, s, m)
                     \o SubFrom(r, tmpl, s, m.p, left - 1, hits)

\* re.sub(r, tmpl, s, count): leftmost non-overlapping matches, count = 0 for all;
\* in an empty string no pattern of the scripts matches
ReSub(r, tmpl, s, count) ==
    IF Len(s) = 0 THEN s
    ELSE SubFrom(r, tmpl, s, 1, IF count = 0 THEN -1 ELSE count, Hits(r, s))

\* the first position >= i where lit occurs in s, 0 if none
FindFrom(lit, s, i) ==
    LET at == {j \in i..(Len(s) - Len(lit) + 1) : SubSeq(s, j, j + Len(lit) - 1) = lit}
    IN  IF at = {} THEN 0 ELSE Min(at)

\* lit in s
Contains(s, lit) ==
    FindFrom(lit, s, 1) > 0

\* s.replace(old, new, 1)
ReplaceFirst(s, old, new) ==
    LET i == FindFrom(old, s, 1)
    IN  IF i = 0 THEN s
        ELSE SubSeq(s, 1, i - 1) \o new \o SubSeq(s, i + Len(old), Len(s))

(***************************************************************************)
(* Pass 1: astpool_to_lpbox.py, process_file's rules.                      *)
(***************************************************************************)
\* 1. Replace type signatures
P1Rule1(c) ==
    LET a == ReSub(Cat(<<WordB, Lit("ExprId"), WordB>>), <<T("Expr")>>, c, 0)
    IN  ReSub(Cat(<<WordB, Lit("StmtId"), WordB>>), <<T("Stmt")>>, a, 0)

\* 2. Replace Box<Expr> and Box<Stmt> with LpBox versions
P1Rule2(c) ==
    LET a == ReSub(Lit("Box<Expr>"), <<T("LpBox<Expr>")>>, c, 0)
    IN  ReSub(Lit("Box<Stmt>"), <<T("LpBox<Stmt>")>>, a, 0)

\* 3. Replace Box::new with LpBox::try_new
P1Rule3(c) ==
    ReSub(Lit("Box::new("), <<T("LpBox::try_new(")>>, c, 0)

\* 4. Remove AstPool parameters from function signatures
P1Rule4(c) ==
    LET a == ReSub(Cat(<<Lit(","), Rep("s", 0), Opt(Grp(1, Cat(<<Lit("mut"), Rep("s", 1)>>))),
                         Lit("pool:"), Rep("s", 0), Lit("AstPool")>>), <<>>, c, 0)
        b == ReSub(Cat(<<Lit("(pool:"), Rep("s", 0), Lit("AstPool,")>>), <<T("(")>>, a, 0)
    IN  ReSub(Cat(<<Lit("(pool:"), Rep("s", 0), Lit("AstPool)")>>), <<T("()")>>, b, 0)

\* 5. Remove AstPool return types
P1Rule5(c) ==
    LET a == ReSub(Cat(<<Lit("->"), Rep("s", 0), Lit("(Expr,"), Rep("s", 0), Lit("AstPool)")>>),
                   <<T("-> Expr")>>, c, 0)
    IN  ReSub(Cat(<<Lit("->"), Rep("s", 0), Lit("(Stmt,"), Rep("s", 0), Lit("AstPool)")>>),
              <<T("-> Stmt")>>, a, 0)

\* 6. Remove pool.expr(id) dereferences
P1Rule6(c) ==
    LET a == ReSub(Cat(<<Lit("pool.expr("), Grp(1, Rep("w", 1)), Lit(")")>>), <<G(1)>>, c, 0)
        b == ReSub(Cat(<<Lit("pool.expr_mut("), Grp(1, Rep("w", 1)), Lit(")")>>), <<G(1)>>, a, 0)
    IN  ReSub(Cat(<<Lit("pool.stmt("), Grp(1, Rep("w", 1)), Lit(")")>>), <<G(1)>>, b, 0)

\* 7. Remove pool.alloc_expr wrapping
P1Rule7(c) ==
    ReSub(Cat(<<Lit("pool.alloc_expr("), Grp(1, Rep("notcomma", 1)), Lit(","), Rep("s", 0),
                Grp(2, Rep("notrparen", 1)), Lit(")?")>>),
          <<T("Expr::new("), G(1), T(", "), G(2), T(")")>>, c, 0)

\* 8. Add LpBox import if file was modified and doesn't have it
P1Rule8(original, c) ==
    IF c /= original /\ ~Contains(c, "use lp_pool::LpBox") /\ Contains(c, "LpBox")
    THEN IF Contains(c, "extern crate alloc;")
         THEN ReplaceFirst(c, "extern crate alloc;", "extern crate alloc;\nuse lp_pool::LpBox;")
         ELSE IF Contains(c, "\nuse ")
         THEN ReSub(Cat(<<Grp(1, Lit("\n")), Grp(2, Lit("use "))>>),
                    <<G(1), T("use lp_pool::LpBox;\n"), G(2)>>, c, 1)
         ELSE c
    ELSE c

\* 9. Remove Box import if no longer needed
P1Rule9(c) ==
    IF ~Contains(c, "Box<") /\ ~Contains(c, "Box::")
    THEN ReSub(Lit("use alloc::boxed::Box;\n"), <<>>, c, 0)
    ELSE c

\* 10. Remove AstPool/ExprId/StmtId imports
P1Rule10(c) ==
    LET a == ReSub(Cat(<<Lit("use crate::"), Opt(Lit("lpscript::")), Lit("compiler::ast::{"),
                         Rep("notrbrace", 0), Lit("AstPool"), Rep("notrbrace", 0), Lit("}"),
                         Opt(Lit(";")), Lit("\n")>>), <<>>, c, 0)
        b == ReSub(Cat(<<Lit(","), Rep("s", 0), Lit("AstPool")>>), <<>>, a, 0)
        d == ReSub(Cat(<<Lit(","), Rep("s", 0), Lit("ExprId")>>), <<>>, b, 0)
    IN  ReSub(Cat(<<Lit(","), Rep("s", 0), Lit("StmtId")>>), <<>>, d, 0)

\* process_file's content after rules 1 to 7
P1Rules1to7(original) ==
    P1Rule7(P1Rule6(P1Rule5(P1Rule4(P1Rule3(P1Rule2(P1Rule1(original)))))))

\* the text process_file ends with, from the text it read
P1Transform(original) ==
    P1Rule10(P1Rule9(P1Rule8(original, P1Rules1to7(original))))

(***************************************************************************)
(* Pass 2: fix_gen_signatures.py, fix_gen_file.                            *)
(***************************************************************************)
\* Remove pool parameter
P2RemovePool(c) ==
    LET a == ReSub(Cat(<<Lit(","), Rep("s", 0), Lit("pool:"), Rep("s", 0), Lit("&AstPool")>>),
                   <<>>, c, 0)
    IN  ReSub(Cat(<<Lit("(pool:"), Rep("s", 0), Lit("&AstPool,")>>), <<T("(")>>, a, 0)

\* re.sub(r'\b<name>:\s*<type>\b', to, c)
P2Param(name, type, to, c) ==
    ReSub(Cat(<<WordB, Lit(name), Lit(":"), Rep("s", 0), Lit(type), WordB>>), <<T(to)>>, c, 0)

\* Replace ExprId/StmtId parameters with &Expr/&Stmt
P2Params(c) ==
    LET c01 == P2Param("left", "ExprId", "left: &Expr", c)
        c02 == P2Param("right", "ExprId", "right: &Expr", c01)
        c03 == P2Param("operand", "ExprId", "operand: &Expr", c02)
        c04 == P2Param("expr_id", "ExprId", "expr: &Expr", c03)
        c05 == P2Param("expr", "ExprId", "expr: &Expr", c04)
        c06 == P2Param("condition", "ExprId", "condition: &Expr", c05)
        c07 == P2Param("true_expr", "ExprId", "true_expr: &Expr", c06)
        c08 == P2Param("false_expr", "ExprId", "false_expr: &Expr", c07)
        c09 == P2Param("value", "ExprId", "value: &Expr", c08)
        c10 == P2Param("stmt_id", "StmtId", "stmt: &Stmt", c09)
        c11 == P2Param("stmt", "StmtId", "stmt: &Stmt", c10)
        c12 == P2Param("body", "StmtId", "body: &Stmt", c11)
        c13 == P2Param("then_stmt", "StmtId", "then_stmt: &Stmt", c12)
        c14 == P2Param("else_stmt", "Option<StmtId>", "else_stmt: Option<&Stmt>", c13)
        c15 == P2Param("init", "&Option<StmtId>", "init: Option<&Stmt>", c14)
        c16 == P2Param("args", "&Vec<ExprId>", "args: &Vec<Expr>", c15)
    IN  P2Param("args", "&[ExprId]", "args: &[Expr]", c16)

\* Remove _id suffix from function names
P2Rename(c) ==
    ReSub(Cat(<<WordB, Lit("gen_"), Grp(1, Rep("w", 1)), Lit("_id"), WordB>>),
          <<T("gen_"), G(1)>>, c, 0)

\* 2. Fix function calls
P2Calls(c) ==
    LET a == ReSub(Cat(<<Lit("self.gen_expr_id(pool,"), Rep("s", 0)>>), <<T("self.gen_expr(")>>, c, 0)
    IN  ReSub(Cat(<<Lit("self.gen_stmt_id(pool,"), Rep("s", 0)>>), <<T("self.gen_stmt(")>>, a, 0)

\* 3. Remove pool.expr() and pool.stmt() dereferences
P2Derefs(c) ==
    LET a == ReSub(Cat(<<Lit("pool.expr("), Grp(1, Rep("w", 1)), Lit(")")>>), <<G(1)>>, c, 0)
    IN  ReSub(Cat(<<Lit("pool.stmt("), Grp(1, Rep("w", 1)), Lit(")")>>), <<G(1)>>, a, 0)

\* the new_content fix_gen_file returns
fix_gen_file(content) ==
    P2Derefs(P2Calls(P2Rename(P2Params(P2RemovePool(content)))))

(***************************************************************************)
(* Pass 3: fix_imports.py, fix_imports.                                    *)
(***************************************************************************)
\* 1. Remove AstPool from imports
P3RemovePool(c) ==
    LET a == ReSub(Cat(<<Lit(","), Rep("s", 0), Lit("AstPool"), Rep("s", 0), Lit(",")>>),
                   <<T(", ")>>, c, 0)
        b == ReSub(Cat(<<Lit(","), Rep("s", 0), Lit("AstPool"), Rep("s", 0), Lit("}")>>),
                   <<T("}")>>, a, 0)
        d == ReSub(Cat(<<Lit("{"), Rep("s", 0), Lit("AstPool"), Rep("s", 0), Lit(",")>>),
                   <<T("{")>>, b, 0)
    IN  ReSub(Cat(<<Lit("use"), Rep("s", 1), Lit("crate::compiler::ast::{"), Rep("s", 0),
                    Lit("AstPool"), Rep("s", 0), Lit("}"), Opt(Lit(";")), Lit("\n")>>),
              <<>>, d, 0)

\* (?=.*;\s*$|.*,|.*}) under re.MULTILINE
P3InImport ==
    Look(Alt(<<Cat(<<Rep("dot", 0), Lit(";"), Rep("s", 0), EOL>>),
               Cat(<<Rep("dot", 0), Lit(",")>>),
               Cat(<<Rep("dot", 0), Lit("}")>>)>>))

\* 2. and 3. Replace ExprId with Expr and StmtId with Stmt in imports
P3Rename(c) ==
    LET a == ReSub(Cat(<<WordB, Lit("ExprId"), WordB, P3InImport>>), <<T("Expr")>>, c, 0)
    IN  ReSub(Cat(<<WordB, Lit("StmtId"), WordB, P3InImport>>), <<T("Stmt")>>, a, 0)

\* the new content fix_imports returns
fix_imports(content) ==
    P3Rename(P3RemovePool(content))

(***************************************************************************)
(* The source tree and the three entry points.                             *)
(***************************************************************************)
\* how many runs of the scripts a behaviour holds
MaxRuns == 2

\* the files under crates/lp-script/src, when that directory exists
Paths ==
    {"ops_gen.rs", "ast_types.rs", "lib.rs", "notes.md"}

\* what a file may start with, before its code
Headers ==
    {"",
     "extern crate alloc;\n",
     "use a::b;\n",
     "//! ast\nuse a::b;\n",
     "use alloc::boxed::Box;\n",
     "use crate::compiler::ast::{AstPool, ExprId, Stmt};\n"}

\* the code of a file
Bodies ==
    {"fn main() {}\n",
     "fn f(mut pool: AstPool, x: ExprId) -> ExprId {}\n",
     "fn g(x: StmtId, pool: AstPool) -> StmtId {}\n",
     "fn h(e: Box<Expr>) {}\n",
     "let y = Box::new(v);\n",
     "let x = pool.expr(n);\n",
     "f(a, ExprIdentifier, SubExprIdExtra);\n",
     "fn gen_add_id(&mut self, pool: &AstPool, left: ExprId, right: ExprId) {}\n",
     "self.gen_expr_id(pool, left);\n"}

Texts ==
    {h \o b : h \in Headers, b \in Bodies}

\* the trees the scripts are run on
Trees ==
    {[p \in Paths |->
         CASE p = "ops_gen.rs" -> t
           [] p = "ast_types.rs" -> "use crate::compiler::ast::{ExprId, AstPool};\npub type Args = Vec<ExprId>;\n"
           [] p = "lib.rs" -> "pub mod ops_gen;\n"
           [] p = "notes.md" -> "Box<Expr> replaces ExprId, AstPool\n"] : t \in Texts}

NoTree ==
    [p \in {} |-> ""]

VARIABLES
    rootExists,  \* whether crates/lp-script/src exists
    disk,        \* the text of each file under it
    runs,        \* the runs started so far
    pass,        \* the script of the current or last run (0: none yet)
    pc,          \* "idle": no script is running; "loop": a script is in its loop over the files
    pattern,     \* Pass 2: which of its two glob patterns the loop is at
    todo,        \* the files the loop has still to visit
    visited,     \* the files the run has read
    original,    \* the text the run read from each visited file
    written,     \* the files the run opened for writing
    modified,    \* the run's count of modified (fixed) files
    exitCode,    \* the exit status of the last run that ended
    lastLine     \* what the last run that ended printed last: "error" or "summary"

vars ==
    <<rootExists, disk, runs, pass, pc, pattern, todo, visited, original, written, modified,
      exitCode, lastLine>>

EndsWith(s, suffix) ==
    Len(s) >= Len(suffix) /\ SubSeq(s, Len(s) - Len(suffix) + 1, Len(s)) = suffix

\* lpscript_dir.rglob("*.rs"), lpscript.glob("**/*_gen.rs"): nothing when the root is missing
Glob(suffix) ==
    {p \in DOMAIN disk : EndsWith(p, suffix)}

Init ==
    /\ \/ rootExists = FALSE /\ disk = NoTree
       \/ rootExists = TRUE /\ disk \in Trees
    /\ runs = 0
    /\ pass = 0
    /\ pc = "idle"
    /\ pattern = 0
    /\ todo = {}
    /\ visited = {}
    /\ original = [p \in Paths |-> ""]
    /\ written = {}
    /\ modified = 0
    /\ exitCode = 0
    /\ lastLine = ""

\* a script starts: its locals are fresh
Launch(p) ==
    /\ pc = "idle"
    /\ runs < MaxRuns
    /\ runs' = runs + 1
    /\ pass' = p
    /\ visited' = {}
    /\ original' = [f \in Paths |-> ""]
    /\ written' = {}
    /\ modified' = 0
    /\ UNCHANGED <<rootExists, disk>>

ChangedAlways(content, orig) ==
    TRUE

\* the text differs from the one read: the file is written
Changed(content, orig) ==
    content /= orig

\* the body of a script's loop for file f, new_content being the transformed text
Visit(f, new_content) ==
    /\ visited' = visited \cup {f}
    /\ original' = [original EXCEPT ![f] = disk[f]]
    /\ todo' = todo \ {f}
    /\ IF Changed(new_content, disk[f])
       THEN /\ disk' = [disk EXCEPT ![f] = new_content]
            /\ written' = written \cup {f}
            /\ modified' = modified + 1
       ELSE UNCHANGED <<disk, written, modified>>
    /\ UNCHANGED <<rootExists, runs, pass, pc, pattern, exitCode, lastLine>>

\* the loop has ended: the summary is printed and the script exits normally
Summary ==
    /\ pc' = "idle"
    /\ exitCode' = 0
    /\ lastLine' = "summary"
    /\ UNCHANGED <<rootExists, disk, runs, pass, pattern, todo, visited, original, written, modified>>

\* astpool_to_lpbox.py main, to the loop
P1Main ==
    /\ Launch(1)
    /\ pattern' = 0
    /\ \/ /\ ~rootExists
          /\ lastLine' = "error"
          /\ exitCode' = 1
          /\ UNCHANGED <<pc, todo>>
       \/ /\ rootExists
          /\ pc' = "loop"
          /\ todo' = Glob(".rs")
          /\ UNCHANGED <<exitCode, lastLine>>

\* astpool_to_lpbox.py process_file(rs_file) and main's count
P1ProcessFile(f) ==
    /\ pc = "loop" /\ pass = 1
    /\ f \in todo
    /\ Visit(f, P1Transform(disk[f]))

P1Finish ==
    /\ pc = "loop" /\ pass = 1
    /\ todo = {}
    /\ Summary

\* fix_gen_signatures.py main, to the first pattern's loop
P2Main ==
    /\ Launch(2)
    /\ pc' = "loop"
    /\ pattern' = 1
    /\ todo' = Glob("_gen.rs")
    /\ UNCHANGED <<exitCode, lastLine>>

\* fix_gen_signatures.py main, the inner loop's body
P2ProcessFile(f) ==
    /\ pc = "loop" /\ pass = 2
    /\ f \in todo
    /\ Visit(f, fix_gen_file(disk[f]))

\* fix_gen_signatures.py main, from the first pattern to the second
P2NextPattern ==
    /\ pc = "loop" /\ pass = 2
    /\ todo = {} /\ pattern = 1
    /\ pattern' = 2
    /\ todo' = Glob("_types.rs")
    /\ UNCHANGED <<rootExists, disk, runs, pass, pc, visited, original, written, modified,
                   exitCode, lastLine>>

P2Finish ==
    /\ pc = "loop" /\ pass = 2
    /\ todo = {} /\ pattern = 2
    /\ Summary

\* fix_imports.py, the __main__ block to the loop
P3Main ==
    /\ Launch(3)
    /\ pc' = "loop"
    /\ pattern' = 0
    /\ todo' = Glob(".rs")
    /\ UNCHANGED <<exitCode, lastLine>>

\* fix_imports.py process_file(rs_file) and the __main__ block's count
P3ProcessFile(f) ==
    /\ pc = "loop" /\ pass = 3
    /\ f \in todo
    /\ Visit(f, fix_imports(disk[f]))

P3Finish ==
    /\ pc = "loop" /\ pass = 3
    /\ todo = {}
    /\ Summary

Next ==
    \/ P1Main
    \/ \E f \in Paths : P1ProcessFile(f)
    \/ P1Finish
    \/ P2Main
    \/ \E f \in Paths : P2ProcessFile(f)
    \/ P2NextPattern
    \/ P2Finish
    \/ P3Main
    \/ \E f \in Paths : P3ProcessFile(f)
    \/ P3Finish

Spec ==
    Init /\ [][Next]_vars

(***************************************************************************)
(* The claims.                                                             *)
(***************************************************************************)
\* the Pass of script p, as a function of the text read
Transform(p, s) ==
    CASE p = 1 -> P1Transform(s)
      [] p = 2 -> fix_gen_file(s)
      [] p = 3 -> fix_imports(s)

\* how many times lit occurs in s
Count(s, lit) ==
    Cardinality({j \in 1..(Len(s) - Len(lit) + 1) : SubSeq(s, j, j + Len(lit) - 1) = lit})

\* a run has ended
Finished ==
    pc = "idle" /\ pass /= 0

LpBoxImport ==
    "use lp_pool::LpBox;"

BoxImport ==
    "use alloc::boxed::Box;"

Anchor ==
    "extern crate alloc;"

\* C1: each Pass is idempotent: the Pass applied to the text it produced from a file
\* returns that text unchanged.
C1_Idempotent ==
    \A f \in visited :
        Transform(pass, Transform(pass, original[f])) = Transform(pass, original[f])

\* C2: a file a run visited was opened for writing exactly when its transformed text
\* differs from the text read, and then holds the transformed text; a visited file whose
\* transformed text equals the text read holds that text still; and the run's modified
\* count is the number of files written.
C2_WriteOnlyOnChange ==
    /\ written \subseteq visited
    /\ \A f \in visited :
          LET transformed == Transform(pass, original[f])
          IN  /\ f \in written <=> transformed /= original[f]
              /\ f \in written => disk[f] = transformed
              /\ f \notin written => disk[f] = original[f]
    /\ modified = Cardinality(written)

\* a run has ended that wrote some of the files it visited and left others alone
C2_Witness ==
    /\ Finished
    /\ written /= {}
    /\ visited \ written /= {}
    /\ modified = Cardinality(written)

\* identifiers that contain ExprId without being it
LongIdents ==
    {"ExprIdentifier", "SubExprIdExtra"}

\* C3: word boundaries: a longer identifier that contains ExprId as a prefix, infix or
\* suffix occurs in a Pass's output as often as in the text the Pass read.
C3_WordBoundary ==
    \A f \in visited : \A id \in LongIdents :
        Count(disk[f], id) = Count(original[f], id)

UsesLpBox(s) ==
    \/ Contains(s, "LpBox")
    \/ Contains(s, "Box<Expr>")
    \/ Contains(s, "Box<Stmt>")
    \/ Contains(s, "Box::new(")

\* C4: after a run of Pass 1 on a file that uses LpBox (directly, or once Box<Expr>,
\* Box<Stmt> or Box::new is rewritten) and lacks `use lp_pool::LpBox;`, the file holds
\* exactly one copy of that import, and one more run of Pass 1 leaves exactly one.
C4_ImportAdd ==
    \A f \in visited :
        (pass = 1 /\ UsesLpBox(original[f]) /\ ~Contains(original[f], LpBoxImport))
            => /\ Count(disk[f], LpBoxImport) = 1
               /\ Count(P1Transform(disk[f]), LpBoxImport) = 1

\* s with every occurrence of lit cut out
Without(s, lit) ==
    ReSub(Lit(lit), <<>>, s, 0)

\* apart from the import line, Box occurs in s only as Box<Expr>, Box<Stmt> or Box::new(
OnlyRewrittenBoxUses(s) ==
    ~Contains(Without(Without(Without(Without(s, BoxImport), "Box<Expr>"), "Box<Stmt>"),
                      "Box::new("), "Box")

\* C5: after a run of Pass 1 on a file that holds the line `use alloc::boxed::Box;` and
\* whose every other use of Box is one the run's earlier rules rewrite, the file no longer
\* holds that line.
C5_ImportRemoved ==
    \A f \in visited :
        (pass = 1 /\ Contains(original[f], BoxImport \o "\n") /\ OnlyRewrittenBoxUses(original[f]))
            => ~Contains(disk[f], BoxImport)

\* C6: a run of any of the three scripts with the root directory missing ends with a
\* non-zero exit status and a diagnostic, not a summary, having read and written no file.
C6_RootNotFound ==
    (Finished /\ ~rootExists)
        => exitCode /= 0 /\ lastLine = "error" /\ visited = {} /\ written = {}

\* signatures with a pool parameter, and what Pass 1 is to make of them
C7_Cases ==
    {<<"fn f(mut pool: AstPool, x: ExprId) -> ExprId", "fn f(x: Expr) -> Expr">>,
     <<"fn g(x: StmtId, pool: AstPool) -> StmtId", "fn g(x: Stmt) -> Stmt">>}

\* C7: Pass 1 removes a `pool: AstPool` parameter, with or without `mut`, and its comma
\* from a signature wherever it stands, renaming ExprId and StmtId in the rest.
C7_PoolParamStripped ==
    \A f \in visited : \A c \in C7_Cases :
        (pass = 1 /\ Contains(original[f], c[1])) => Contains(disk[f], c[2])

\* a codegen signature and a call site, and what Pass 2 is to make of them
C8_Cases ==
    {<<"fn gen_add_id(&mut self, pool: &AstPool, left: ExprId, right: ExprId)",
       "fn gen_add(&mut self, left: &Expr, right: &Expr)">>,
     <<"self.gen_expr_id(pool, left)", "self.gen_expr(left)">>}

\* C8: Pass 2 rewrites the gen_add_id signature to gen_add without the pool parameter and
\* with reference types, and every call self.gen_expr_id(pool, X) to self.gen_expr(X).
C8_GenSignatureAndCalls ==
    \A f \in visited : \A c \in C8_Cases :
        (pass = 2 /\ Contains(original[f], c[1])) => Contains(disk[f], c[2])

\* grouped imports naming AstPool, and what Pass 3 is to make of them
C9_Cases ==
    {<<"use crate::compiler::ast::{AstPool, ExprId, Stmt};",
       "use crate::compiler::ast::{Expr, Stmt};">>,
     <<"use crate::compiler::ast::{ExprId, AstPool};",
       "use crate::compiler::ast::{Expr};">>}

\* C9: Pass 3 takes AstPool and its separator out of a grouped import, wherever it
\* stands, and renames ExprId and StmtId, adding and leaving no other character.
C9_GroupedImport ==
    \A f \in visited : \A c \in C9_Cases :
        (pass = 3 /\ Contains(original[f], c[1])) => Contains(disk[f], c[2])

\* the positions of s where a `use` statement starts a line
UseStarts(s) ==
    {j \in 1..(Len(s) - 3) : SubSeq(s, j, j + 3) = "use " /\ (j = 1 \/ CharAt(s, j - 1) = "\n")}

\* rule 8's trigger: rules 1 to 7 changed the text, which uses LpBox and lacks its import
WantsImport(s) ==
    LET c == P1Rules1to7(s)
    IN  c /= s /\ Contains(c, "LpBox") /\ ~Contains(c, "use lp_pool::LpBox")

\* C10: where Pass 1 adds `use lp_pool::LpBox;`: right after the line `extern crate
\* alloc;` when the file has it, and otherwise right before the file's first `use`
\* statement, also when that statement is the file's first line; the add is skipped only
\* when the file has neither.
C10_InsertionPoint ==
    \A f \in visited :
        (pass = 1 /\ WantsImport(original[f]))
            => IF Contains(original[f], Anchor)
               THEN Contains(disk[f], Anchor \o "\n" \o LpBoxImport \o "\n")
               ELSE IF UseStarts(original[f]) /= {}
               THEN /\ Contains(disk[f], LpBoxImport)
                    /\ FindFrom(LpBoxImport, disk[f], 1) = Min(UseStarts(disk[f]))
               ELSE ~Contains(disk[f], LpBoxImport)
====
